---- MODULE Spec2Model ----
(***************************************************************************)
(* A model of BaseMiftahDB (src/base.ts): a key-value store over a single  *)
(* table of rows (key, value, expires_at).  The table is a function from   *)
(* the keys that have a row to that row.  Every public method is an        *)
(* operator from the table (and the clock) to the new table, the returned  *)
(* value and whether it threw; every call of a method is an action.        *)
(***************************************************************************)
EXTENDS Integers, Sequences, FiniteSets, TLC

\* ------------------------------------------------------------------ bounds
\* Largest clock value and largest expiry timestamp (milliseconds).
MaxTime == 2
\* Longest array handed to multiGet / multiSet / multiDelete.
MaxBatch == 2
\* Largest limit and largest page handed to pagination.
MaxLimit == 2
MaxPage == 3

\* ------------------------------------------------------------------ domains
\* Keys are character sequences, so that LIKE patterns can be matched.
Keys == { <<"a">>, <<"a", "b">>, <<"b">> }
Patterns == { <<"%">>, <<"a", "%">> }

\* Application values: a kind and a payload.  number 0 and boolean false
\* share the payload and differ in kind only.
Null == [kind |-> "null", val |-> 0]
Values == { [kind |-> "number", val |-> 0], [kind |-> "boolean", val |-> 0] }
\* A value the codec cannot encode.
Unencodable == [kind |-> "function", val |-> 0]
InputValues == Values \cup {Unencodable}

\* An optional timestamp: <<>> is null / undefined, <<t>> is t milliseconds.
NoExpiry == <<>>
Expiries == {NoExpiry} \cup { <<t>> : t \in 0..MaxTime }

EmptyTable == [k \in {} |-> Null]
Restrict(t, S) == [k \in S |-> t[k]]

\* ------------------------------------------------------------------ codec
\* encodeValue: a type tag followed by the payload; throws on a value of an
\* unsupported kind.
Encodable(v) == v.kind \in {"null", "boolean", "number"}
TagOf(kind) == CASE kind = "null" -> 0 [] kind = "boolean" -> 1 [] kind = "number" -> 2
KindOf(tag) == CASE tag = 0 -> "null" [] tag = 1 -> "boolean" [] tag = 2 -> "number"
encodeValue(v) == << TagOf(v.kind), v.val >>
\* decodeValue: throws on bytes that do not start with a known tag.
Decodable(bytes) == Len(bytes) = 2 /\ bytes[1] \in 0..2
decodeValue(bytes) == [kind |-> KindOf(bytes[1]), val |-> bytes[2]]

\* ------------------------------------------------------------------ statements
\* The prepared statements, as functions of the table.
RECURSIVE Like(_, _)
Like(s, p) ==
  IF p = <<>> THEN s = <<>>
  ELSE IF Head(p) = "%" THEN Like(s, Tail(p)) \/ (s # <<>> /\ Like(Tail(s), p))
  ELSE s # <<>> /\ (Head(p) = "_" \/ Head(p) = Head(s)) /\ Like(Tail(s), Tail(p))

\* GET: the row of key, or undefined (<<>>).
SQL_GET(t, key) == IF key \in DOMAIN t THEN << t[key] >> ELSE <<>>
\* SET: insert the row, or overwrite it on key conflict.
SQL_SET(t, key, bytes, expiresAtMs) ==
  [k \in DOMAIN t \cup {key} |->
     IF k = key THEN [value |-> bytes, expires_at |-> expiresAtMs] ELSE t[k]]
SQL_EXISTS(t, key) == IF key \in DOMAIN t THEN 1 ELSE 0
SQL_DELETE(t, key) == Restrict(t, DOMAIN t \ {key})
\* RENAME(newKey, oldKey): relabel the row of oldKey, replacing any row of
\* newKey; nothing when oldKey has no row.
SQL_RENAME(t, newKey, oldKey) ==
  IF oldKey \notin DOMAIN t THEN t
  ELSE [k \in (DOMAIN t \ {oldKey}) \cup {newKey} |->
          IF k = newKey THEN t[oldKey] ELSE t[k]]
SQL_GET_EXPIRE(t, key) ==
  IF key \in DOMAIN t THEN << [expires_at |-> t[key].expires_at] >> ELSE <<>>
SQL_SET_EXPIRE(t, expiresAtMs, key) ==
  [k \in DOMAIN t |-> IF k = key THEN [t[k] EXCEPT !.expires_at = expiresAtMs] ELSE t[k]]
\* expires_at IS NOT NULL AND expires_at <= bound
SqlExpired(row, bound) == row.expires_at # NoExpiry /\ row.expires_at[1] <= bound
SQL_CLEANUP(t, bound) == Restrict(t, { k \in DOMAIN t : ~SqlExpired(t[k], bound) })
SQL_COUNT_KEYS(t, pattern) == Cardinality({ k \in DOMAIN t : Like(k, pattern) })
SQL_COUNT_EXPIRED(t, pattern, clock) ==
  Cardinality({ k \in DOMAIN t : SqlExpired(t[k], clock) /\ Like(k, pattern) })
SQL_FLUSH(t) == EmptyTable
\* The order in which a scan of the table yields its rows: the same for
\* every statement, here the order of the keys.
ScanOrder == << <<"a">>, <<"a", "b">>, <<"b">> >>
\* KEYS: the matching keys, in scan order.
SQL_KEYS(t, pattern) ==
  SelectSeq(ScanOrder, LAMBDA k : k \in DOMAIN t /\ Like(k, pattern))
\* PAGINATION: KEYS with LIMIT limit OFFSET offset; a negative LIMIT is no
\* limit and a negative OFFSET is 0.
SQL_PAGINATION(t, pattern, limit, offset) ==
  LET all == SQL_KEYS(t, pattern)
      skip == IF offset < 0 THEN 0 ELSE offset
      left == Len(all) - skip
      n == IF limit < 0 \/ limit > left THEN left ELSE limit
  IN  [i \in 1..n |-> all[skip + i]]

\* ------------------------------------------------------------------ methods
\* What a method call yields: the table afterwards, the returned value
\* (ret: a value, flag: a boolean, num: a number, when: an optional
\* timestamp, list: a sequence of keys), whether it threw and whether the
\* connection is open afterwards.
Outcome(t) == [table |-> t, ret |-> Null, flag |-> FALSE, num |-> 0,
               when |-> NoExpiry, list |-> <<>>, threw |-> FALSE, open |-> TRUE]

\* JavaScript truthiness of result.expires_at: null and 0 are falsy.
Truthy(e) == e # NoExpiry /\ e[1] # 0

delete(t, key) == Outcome(SQL_DELETE(t, key))

\* get with the boundary clock = expires_at read as not yet expired.
get_StrictExpiry(t, key, clock) ==
  LET result == SQL_GET(t, key) IN
  IF result = <<>> THEN Outcome(t)
  ELSE IF Truthy(result[1].expires_at) /\ result[1].expires_at[1] < clock
       THEN Outcome(delete(t, key).table)
  ELSE IF ~Decodable(result[1].value) THEN [Outcome(t) EXCEPT !.threw = TRUE]
  ELSE [Outcome(t) EXCEPT !.ret = decodeValue(result[1].value)]

get(t, key, clock) ==
  LET result == SQL_GET(t, key) IN
  IF result = <<>> THEN Outcome(t)
  ELSE IF Truthy(result[1].expires_at) /\ result[1].expires_at[1] <= clock
       THEN Outcome(delete(t, key).table)
  ELSE IF ~Decodable(result[1].value) THEN [Outcome(t) EXCEPT !.threw = TRUE]
  ELSE [Outcome(t) EXCEPT !.ret = decodeValue(result[1].value)]

\* set that keeps the stored expiration when called without expiresAt.
set_KeepsExpiry(t, key, value, expiresAt) ==
  IF ~Encodable(value) THEN [Outcome(t) EXCEPT !.threw = TRUE]
  ELSE Outcome(SQL_SET(t, key, encodeValue(value),
                       IF expiresAt = NoExpiry /\ key \in DOMAIN t
                       THEN t[key].expires_at ELSE expiresAt))

set(t, key, value, expiresAt) ==
  IF ~Encodable(value) THEN [Outcome(t) EXCEPT !.threw = TRUE]
  ELSE Outcome(SQL_SET(t, key, encodeValue(value), expiresAt))

exists(t, key) == [Outcome(t) EXCEPT !.flag = (SQL_EXISTS(t, key) # 0)]

\* rename with the statement's two parameters bound in the wrong order.
rename_Swapped(t, oldKey, newKey) == Outcome(SQL_RENAME(t, oldKey, newKey))
\* rename that clears the target key before relabelling.
rename_DropsTarget(t, oldKey, newKey) ==
  Outcome(SQL_RENAME(SQL_DELETE(t, newKey), newKey, oldKey))

rename(t, oldKey, newKey) == Outcome(SQL_RENAME(t, newKey, oldKey))

setExpire(t, key, expiresAt) == Outcome(SQL_SET_EXPIRE(t, expiresAt, key))

getExpire(t, key) ==
  LET result == SQL_GET_EXPIRE(t, key) IN
  IF result # <<>> /\ Truthy(result[1].expires_at)
  THEN [Outcome(t) EXCEPT !.when = result[1].expires_at]
  ELSE Outcome(t)

keys(t, pattern) == [Outcome(t) EXCEPT !.list = SQL_KEYS(t, pattern)]

\* pagination with pages numbered from 0.
pagination_ZeroBased(t, limit, page, pattern) ==
  LET offset == page * limit IN
  [Outcome(t) EXCEPT !.list = SQL_PAGINATION(t, pattern, limit, offset)]

pagination(t, limit, page, pattern) ==
  LET offset == (page - 1) * limit IN
  [Outcome(t) EXCEPT !.list = SQL_PAGINATION(t, pattern, limit, offset)]

count(t, pattern) == [Outcome(t) EXCEPT !.num = SQL_COUNT_KEYS(t, pattern)]

\* countExpired that reclaims the rows it counted.
countExpired_Reclaims(t, pattern, clock) ==
  [Outcome(SQL_CLEANUP(t, clock)) EXCEPT !.num = SQL_COUNT_EXPIRED(t, pattern, clock)]

countExpired(t, pattern, clock) ==
  [Outcome(t) EXCEPT !.num = SQL_COUNT_EXPIRED(t, pattern, clock)]

\* cleanup that binds a bound one millisecond behind the clock.
cleanup_Stale(t, clock) == Outcome(SQL_CLEANUP(t, clock - 1))

cleanup(t, clock) == Outcome(SQL_CLEANUP(t, clock))

flush(t) == Outcome(SQL_FLUSH(t))

\* A statement run on the connection: once the connection is closed it
\* throws and does nothing.
OnConnection(isOpen, t, r) ==
  IF isOpen THEN r ELSE [Outcome(t) EXCEPT !.threw = TRUE, !.open = FALSE]

\* close that runs the cleanup and leaves the connection open.
close_KeepsOpen(t, clock, isOpen) == OnConnection(isOpen, t, cleanup(t, clock))

\* close: a final cleanup, then the connection is released.  On a closed
\* connection the cleanup throws.
close(t, clock, isOpen) ==
  LET c == OnConnection(isOpen, t, cleanup(t, clock)) IN
  IF c.threw THEN c ELSE [c EXCEPT !.open = FALSE]

\* ------------------------------------------------------------------ state
VARIABLES
  table,    \* the rows of the store
  now,      \* Date.now()
  open,     \* the backend connection is open
  last,     \* the last completed call: its arguments, outcome and the table before it
  tracked,  \* the last successful set whose key has not been written since
  txn       \* the batch in flight, if any

vars == << table, now, open, last, tracked, txn >>

NoCall == [op |-> "none", key |-> <<>>, newKey |-> <<>>, value |-> Null,
           expiresAt |-> NoExpiry, pattern |-> <<>>, batch |-> <<>>,
           limit |-> 0, page |-> 0,
           ret |-> Null, flag |-> FALSE, num |-> 0, when |-> NoExpiry, list |-> <<>>,
           map |-> EmptyTable, threw |-> FALSE, pre |-> EmptyTable, at |-> 0]

NoTrack == [live |-> FALSE, key |-> <<>>, value |-> Null, expiresAt |-> NoExpiry, at |-> 0]

NoTxn == [op |-> "none", snapshot |-> EmptyTable, batch |-> <<>>, i |-> 0,
          map |-> EmptyTable]

\* The record of a completed call of op with outcome r.
Called(op, r) ==
  [NoCall EXCEPT !.op = op, !.ret = r.ret, !.flag = r.flag, !.num = r.num,
                 !.when = r.when, !.list = r.list, !.threw = r.threw,
                 !.pre = table, !.at = now]

\* tracked, after a call that writes the given keys.
Untrack(ks) == IF tracked.live /\ tracked.key \in ks THEN NoTrack ELSE tracked

\* The caller holds no result it has not consumed yet.
Returned == last.op = "none"

\* A caller that could run while a batch callback is suspended.
CallerMayRun_Reentrant == open /\ Returned

\* A caller can issue a call only while the connection is open and no batch
\* callback is running: a batch runs synchronously to completion.
CallerMayRun == open /\ Returned /\ txn.op = "none"

Init ==
  /\ table = EmptyTable
  /\ now = 1
  /\ open = TRUE
  /\ last = NoCall
  /\ tracked = NoTrack
  /\ txn = NoTxn

\* The clock advances between calls.
Tick ==
  /\ Returned
  /\ txn.op = "none"
  /\ now < MaxTime
  /\ now' = now + 1
  /\ UNCHANGED << table, open, last, tracked, txn >>

\* ------------------------------------------------------------------ single-key calls
CallSet ==
  /\ CallerMayRun
  /\ \E key \in Keys, value \in InputValues, expiresAt \in Expiries :
      LET r == set(table, key, value, expiresAt) IN
      /\ table' = r.table
      /\ last' = [Called("set", r) EXCEPT !.key = key, !.value = value, !.expiresAt = expiresAt]
      /\ tracked' = IF r.threw THEN tracked
                    ELSE [live |-> TRUE, key |-> key, value |-> value,
                          expiresAt |-> expiresAt, at |-> now]
      /\ UNCHANGED << now, open, txn >>

CallGet ==
  /\ CallerMayRun
  /\ \E key \in Keys :
      LET r == get(table, key, now) IN
      /\ table' = r.table
      /\ last' = [Called("get", r) EXCEPT !.key = key]
      /\ UNCHANGED << now, open, tracked, txn >>

CallExists ==
  /\ CallerMayRun
  /\ \E key \in Keys :
      LET r == exists(table, key) IN
      /\ table' = r.table
      /\ last' = [Called("exists", r) EXCEPT !.key = key]
      /\ UNCHANGED << now, open, tracked, txn >>

CallDelete ==
  /\ CallerMayRun
  /\ \E key \in Keys :
      LET r == delete(table, key) IN
      /\ table' = r.table
      /\ last' = [Called("delete", r) EXCEPT !.key = key]
      /\ tracked' = Untrack({key})
      /\ UNCHANGED << now, open, txn >>

CallRename ==
  /\ CallerMayRun
  /\ \E oldKey \in Keys, newKey \in Keys :
      LET r == rename(table, oldKey, newKey) IN
      /\ table' = r.table
      /\ last' = [Called("rename", r) EXCEPT !.key = oldKey, !.newKey = newKey]
      /\ tracked' = Untrack({oldKey, newKey})
      /\ UNCHANGED << now, open, txn >>

CallSetExpire ==
  /\ CallerMayRun
  /\ \E key \in Keys, t \in 0..MaxTime :
      LET r == setExpire(table, key, <<t>>) IN
      /\ table' = r.table
      /\ last' = [Called("setExpire", r) EXCEPT !.key = key, !.expiresAt = <<t>>]
      /\ tracked' = Untrack({key})
      /\ UNCHANGED << now, open, txn >>

CallGetExpire ==
  /\ CallerMayRun
  /\ \E key \in Keys :
      LET r == getExpire(table, key) IN
      /\ table' = r.table
      /\ last' = [Called("getExpire", r) EXCEPT !.key = key]
      /\ UNCHANGED << now, open, tracked, txn >>

CallCount ==
  /\ CallerMayRun
  /\ \E pattern \in Patterns :
      LET r == count(table, pattern) IN
      /\ table' = r.table
      /\ last' = [Called("count", r) EXCEPT !.pattern = pattern]
      /\ UNCHANGED << now, open, tracked, txn >>

CallCountExpired ==
  /\ CallerMayRun
  /\ \E pattern \in Patterns :
      LET r == countExpired(table, pattern, now) IN
      /\ table' = r.table
      /\ last' = [Called("countExpired", r) EXCEPT !.pattern = pattern]
      /\ UNCHANGED << now, open, tracked, txn >>

CallCleanup ==
  LET r == cleanup(table, now) IN
  /\ CallerMayRun
  /\ table' = r.table
  /\ last' = Called("cleanup", r)
  /\ UNCHANGED << now, open, tracked, txn >>

CallFlush ==
  LET r == flush(table) IN
  /\ CallerMayRun
  /\ table' = r.table
  /\ last' = Called("flush", r)
  /\ tracked' = NoTrack
  /\ UNCHANGED << now, open, txn >>

CallClose ==
  LET r == close(table, now, open) IN
  /\ Returned
  /\ txn.op = "none"
  /\ table' = r.table
  /\ open' = r.open
  /\ last' = Called("close", r)
  /\ UNCHANGED << now, tracked, txn >>

\* The method returns to its caller, which consumes the result.
Return ==
  /\ ~Returned
  /\ last' = NoCall
  /\ UNCHANGED << table, now, open, tracked, txn >>

Next ==
  \/ Tick
  \/ Return
  \/ CallSet
  \/ CallGet
  \/ CallExists
  \/ CallDelete
  \/ CallRename
  \/ CallSetExpire
  \/ CallGetExpire
  \/ CallCount
  \/ CallCountExpired
  \/ CallCleanup
  \/ CallFlush
  \/ CallClose

Spec == Init /\ [][Next]_vars

\* ------------------------------------------------------------------ listing
\* set, with the record of the last set left as it is.
CallSetUntracked ==
  /\ CallerMayRun
  /\ \E key \in Keys, value \in InputValues, expiresAt \in Expiries :
      LET r == set(table, key, value, expiresAt) IN
      /\ table' = r.table
      /\ last' = [Called("set", r) EXCEPT !.key = key, !.value = value, !.expiresAt = expiresAt]
      /\ UNCHANGED << now, open, tracked, txn >>

CallKeys ==
  /\ CallerMayRun
  /\ \E pattern \in Patterns :
      LET r == keys(table, pattern) IN
      /\ table' = r.table
      /\ last' = [Called("keys", r) EXCEPT !.pattern = pattern]
      /\ UNCHANGED << now, open, tracked, txn >>

CallPagination ==
  /\ CallerMayRun
  /\ \E limit \in -1..MaxLimit, page \in -1..MaxPage, pattern \in Patterns :
      LET r == pagination(table, limit, page, pattern) IN
      /\ table' = r.table
      /\ last' = [Called("pagination", r) EXCEPT !.limit = limit, !.page = page,
                                                  !.pattern = pattern]
      /\ UNCHANGED << now, open, tracked, txn >>

NextRead ==
  \/ Tick
  \/ Return
  \/ CallSetUntracked
  \/ CallGet
  \/ CallExists
  \/ CallGetExpire
  \/ CallCount
  \/ CallCountExpired
  \/ CallKeys
  \/ CallPagination

SpecRead == Init /\ [][NextRead]_vars

\* ------------------------------------------------------------------ after close
\* The methods other than close: each runs a statement, a transaction or a
\* serialization on the connection first.
OtherMethods ==
  { "get", "set", "exists", "delete", "rename", "setExpire", "getExpire", "keys",
    "pagination", "count", "countExpired", "multiGet", "multiSet", "multiDelete",
    "vacuum", "cleanup", "flush", "backup" }

\* A call of any of them on the closed connection.
CallAfterClose ==
  /\ ~open
  /\ Returned
  /\ txn.op = "none"
  /\ \E op \in OtherMethods :
      LET r == OnConnection(open, table, Outcome(table)) IN
      /\ table' = r.table
      /\ last' = Called(op, r)
      /\ UNCHANGED << now, open, tracked, txn >>

NextClose ==
  \/ Tick
  \/ Return
  \/ CallSetUntracked
  \/ CallCleanup
  \/ CallClose
  \/ CallAfterClose

SpecClose == Init /\ [][NextClose]_vars

\* ------------------------------------------------------------------ batches
\* multiGet / multiSet / multiDelete run a loop of single-key calls inside
\* db.transaction(...)(): BEGIN, the callback, then COMMIT, or ROLLBACK when
\* the callback throws (the error is thrown on to the caller).
BatchKeys == { <<"a">>, <<"b">> }
EntryShapes ==
  { << [kind |-> "number", val |-> 0], NoExpiry >>,
    << [kind |-> "boolean", val |-> 0], << MaxTime >> >>,
    << [kind |-> "number", val |-> 0], << 1 >> >>,
    << [kind |-> "boolean", val |-> 0], << 0 >> >>,
    << Unencodable, NoExpiry >> }
Entries ==
  { [key |-> k, value |-> sh[1], expiresAt |-> sh[2]] : k \in BatchKeys, sh \in EntryShapes }
SeqsUpTo(S, n) == UNION { [1..m -> S] : m \in 0..n }
EntryBatches == SeqsUpTo(Entries, MaxBatch)
KeyBatches == SeqsUpTo(Keys, MaxBatch)

\* The table a transaction leaves: the work of the callback on COMMIT, the
\* table as it was at BEGIN on ROLLBACK.
Commit(snapshot, work) == work
\* A loop that is not wrapped in a transaction: a throw leaves the work done.
Rollback_KeepsWork(snapshot, work) == work
Rollback(snapshot, work) == snapshot

Begin(op, batch) ==
  /\ txn' = [NoTxn EXCEPT !.op = op, !.snapshot = table, !.batch = batch, !.i = 1]
  /\ UNCHANGED << table, now, open, last, tracked >>

\* The record of a completed batch call.
BatchCalled(threw) ==
  [NoCall EXCEPT !.op = txn.op, !.batch = txn.batch, !.map = txn.map,
                 !.threw = threw, !.pre = txn.snapshot, !.at = now]

\* A throwing callback whose transaction is committed all the same.
Abort_Commits ==
  /\ table' = Commit(txn.snapshot, table)
  /\ txn' = NoTxn
  /\ last' = [BatchCalled(TRUE) EXCEPT !.map = EmptyTable]
  /\ UNCHANGED << now, open, tracked >>

\* The callback threw at its current entry.
Abort ==
  /\ table' = Rollback(txn.snapshot, table)
  /\ txn' = NoTxn
  /\ last' = [BatchCalled(TRUE) EXCEPT !.map = EmptyTable]
  /\ UNCHANGED << now, open, tracked >>

\* The callback ran to its end.
Finish(op) ==
  /\ txn.op = op
  /\ txn.i > Len(txn.batch)
  /\ table' = Commit(txn.snapshot, table)
  /\ txn' = NoTxn
  /\ last' = BatchCalled(FALSE)
  /\ UNCHANGED << now, open, tracked >>

\* Bytes that no encodeValue produced.
ForeignBytes == << 9, 0 >>

\* execute(sql, params) with a statement that stores foreign bytes under a key.
CallExecute ==
  /\ CallerMayRun
  /\ \E key \in BatchKeys :
      LET r == Outcome(SQL_SET(table, key, ForeignBytes, NoExpiry)) IN
      /\ table' = r.table
      /\ last' = [Called("execute", r) EXCEPT !.key = key]
      /\ UNCHANGED << now, open, tracked, txn >>

MultiSetBegin ==
  /\ CallerMayRun
  /\ \E entries \in EntryBatches : Begin("multiSet", entries)

\* The loop of multiSet walking the entries from the last to the first.
MultiSetStep_Reversed ==
  /\ txn.op = "multiSet"
  /\ txn.i <= Len(txn.batch)
  /\ LET entry == txn.batch[Len(txn.batch) + 1 - txn.i]
         r == set(table, entry.key, entry.value, entry.expiresAt) IN
     IF r.threw THEN Abort
     ELSE /\ table' = r.table
          /\ txn' = [txn EXCEPT !.i = @ + 1]
          /\ UNCHANGED << now, open, last, tracked >>

MultiSetStep ==
  /\ txn.op = "multiSet"
  /\ txn.i <= Len(txn.batch)
  /\ LET entry == txn.batch[txn.i]
         r == set(table, entry.key, entry.value, entry.expiresAt) IN
     IF r.threw THEN Abort
     ELSE /\ table' = r.table
          /\ txn' = [txn EXCEPT !.i = @ + 1]
          /\ UNCHANGED << now, open, last, tracked >>

MultiSetCommit == Finish("multiSet")

MultiGetBegin ==
  /\ CallerMayRun
  /\ \E ks \in KeyBatches : Begin("multiGet", ks)

MultiGetStep ==
  /\ txn.op = "multiGet"
  /\ txn.i <= Len(txn.batch)
  /\ LET key == txn.batch[txn.i]
         r == get(table, key, now) IN
     IF r.threw THEN Abort
     ELSE /\ table' = r.table
          /\ txn' = [txn EXCEPT !.i = @ + 1,
                                !.map = [k \in DOMAIN txn.map \cup {key} |->
                                           IF k = key THEN r.ret ELSE txn.map[k]]]
          /\ UNCHANGED << now, open, last, tracked >>

MultiGetCommit == Finish("multiGet")

MultiDeleteBegin ==
  /\ CallerMayRun
  /\ \E ks \in KeyBatches : Begin("multiDelete", ks)

MultiDeleteStep ==
  /\ txn.op = "multiDelete"
  /\ txn.i <= Len(txn.batch)
  /\ LET key == txn.batch[txn.i]
         r == delete(table, key) IN
     /\ table' = r.table
     /\ txn' = [txn EXCEPT !.i = @ + 1]
     /\ UNCHANGED << now, open, last, tracked >>

MultiDeleteCommit == Finish("multiDelete")

NextBatch ==
  \/ Tick
  \/ Return
  \/ CallExecute
  \/ CallGet
  \/ CallExists
  \/ CallCount
  \/ MultiSetBegin
  \/ MultiSetStep
  \/ MultiSetCommit
  \/ MultiGetBegin
  \/ MultiGetStep
  \/ MultiGetCommit
  \/ MultiDeleteBegin
  \/ MultiDeleteStep
  \/ MultiDeleteCommit

SpecBatch == Init /\ [][NextBatch]_vars

\* ------------------------------------------------------------------ properties
\* The last call was op on the key of the tracked set: no write to that key
\* lies between the set and this call.
OnTracked(op) == last.op = op /\ tracked.live /\ tracked.key = last.key

\* C1: after set(k, v, t) with 0 <= t <= the clock at the set, the next
\* get(k) returns null and the row of k is physically removed.
C1_PastExpiryReclaimed ==
  (OnTracked("get") /\ tracked.expiresAt # NoExpiry /\ tracked.expiresAt[1] <= tracked.at)
    => /\ ~last.threw
       /\ last.ret = Null
       /\ last.key \notin DOMAIN table
       /\ ~exists(table, last.key).flag
       /\ count(table, <<"%">>).num = Cardinality(DOMAIN last.pre \ {last.key})

\* C2: after set(k, v, t) with t later than the clock at the set and no write
\* to k since, get(k) returns v and leaves the table alone while now < t, and
\* returns null once now >= t.
C2_FutureExpiry ==
  (OnTracked("get") /\ tracked.expiresAt # NoExpiry /\ tracked.expiresAt[1] > tracked.at)
    => /\ ~last.threw
       /\ IF last.at < tracked.expiresAt[1]
          THEN last.ret = tracked.value /\ table = last.pre /\ last.key \in DOMAIN table
          ELSE last.ret = Null

\* A get at the very instant of expiry met the row and returned null.
C2_Witness ==
  /\ OnTracked("get")
  /\ tracked.expiresAt # NoExpiry
  /\ tracked.expiresAt[1] > tracked.at
  /\ last.at = tracked.expiresAt[1]
  /\ last.key \in DOMAIN last.pre
  /\ last.ret = Null

\* C3: a set on an existing key replaces the value and the expiration of its
\* row and keeps the number of rows; after a set without expiresAt the key has
\* no expiration: getExpire returns null and get returns the value at every
\* later clock value.
C3_SetUpserts ==
  /\ (last.op = "set" /\ ~last.threw /\ last.key \in DOMAIN last.pre)
       => /\ Cardinality(DOMAIN table) = Cardinality(DOMAIN last.pre)
          /\ table[last.key].expires_at = last.expiresAt
          /\ Decodable(table[last.key].value)
          /\ decodeValue(table[last.key].value) = last.value
          /\ \A k \in DOMAIN last.pre \ {last.key} : k \in DOMAIN table /\ table[k] = last.pre[k]
  /\ (OnTracked("get") /\ tracked.expiresAt = NoExpiry)
       => ~last.threw /\ last.ret = tracked.value /\ table = last.pre
  /\ (OnTracked("getExpire") /\ tracked.expiresAt = NoExpiry)
       => last.when = NoExpiry

\* A set without expiresAt overwrote a row that had an expiration and another value.
C3_Witness ==
  /\ last.op = "set"
  /\ ~last.threw
  /\ last.key \in DOMAIN last.pre
  /\ last.pre[last.key].expires_at # NoExpiry
  /\ last.expiresAt = NoExpiry
  /\ last.pre[last.key].value # table[last.key].value

\* What rename(oldKey, newKey) does to a table that holds oldKey, for two
\* different keys: oldKey is gone, newKey holds oldKey's row, one row fewer
\* when newKey had a row, every other row as before.
Renamed(pre, post, oldKey, newKey) ==
  /\ oldKey \notin DOMAIN post
  /\ get(post, oldKey, now).ret = Null
  /\ ~exists(post, oldKey).flag
  /\ newKey \in DOMAIN post
  /\ post[newKey] = pre[oldKey]
  /\ Cardinality(DOMAIN post) =
       IF newKey \in DOMAIN pre THEN Cardinality(DOMAIN pre) - 1 ELSE Cardinality(DOMAIN pre)
  /\ \A k \in Keys \ {oldKey, newKey} :
       /\ (k \in DOMAIN post) = (k \in DOMAIN pre)
       /\ k \in DOMAIN pre => post[k] = pre[k]

\* C4, as stated: rename(oldKey, newKey) with oldKey present removes oldKey
\* and leaves its row under newKey, for every pair of keys.
C4_RenameAnyKeys ==
  (last.op = "rename" /\ last.key \in DOMAIN last.pre)
    => Renamed(last.pre, table, last.key, last.newKey)

\* C4, amended: the same for oldKey # newKey; rename(k, k) leaves the table
\* unchanged, the row of k included.
C4_Rename ==
  (last.op = "rename" /\ last.key \in DOMAIN last.pre)
    => /\ ~last.threw
       /\ IF last.key # last.newKey
          THEN Renamed(last.pre, table, last.key, last.newKey)
          ELSE table = last.pre

\* A rename onto another key that had a different row, with a third row present.
C4_Witness ==
  /\ last.op = "rename"
  /\ last.key # last.newKey
  /\ DOMAIN last.pre = Keys
  /\ last.pre[last.key] # last.pre[last.newKey]
  /\ table[last.newKey] = last.pre[last.key]

\* C5: rename(oldKey, newKey) with oldKey absent throws nothing and leaves the
\* whole table unchanged, an existing row of newKey included.
C5_RenameAbsent ==
  (last.op = "rename" /\ last.key \notin DOMAIN last.pre)
    => ~last.threw /\ table = last.pre

\* A rename of an absent key onto a key that has a row.
C5_Witness ==
  /\ last.op = "rename"
  /\ last.key \notin DOMAIN last.pre
  /\ last.newKey \in DOMAIN last.pre
  /\ last.newKey \in DOMAIN table

Range(f) == { f[i] : i \in DOMAIN f }

\* A row is expired at a clock value when its expires_at is set and not
\* later than the clock.
Expired(row, clock) == row.expires_at # NoExpiry /\ row.expires_at[1] <= clock

\* C6: a multiSet throws exactly when some entry of the batch cannot be
\* encoded, and then the table equals the table before the call.
C6_MultiSetAllOrNothing ==
  last.op = "multiSet"
    => /\ last.threw = (\E i \in DOMAIN last.batch : ~Encodable(last.batch[i].value))
       /\ last.threw => table = last.pre

\* A batch failed at its second entry, after a first entry that would have
\* changed an existing row.
C6_Witness ==
  /\ last.op = "multiSet"
  /\ last.threw
  /\ Len(last.batch) >= 2
  /\ Encodable(last.batch[1].value)
  /\ ~Encodable(last.batch[2].value)
  /\ last.batch[1].key \in DOMAIN last.pre
  /\ last.pre[last.batch[1].key] #
       [value |-> encodeValue(last.batch[1].value), expires_at |-> last.batch[1].expiresAt]
  /\ table = last.pre

\* The calls that are not batches.
SingleOps == { "get", "set", "exists", "delete", "rename", "setExpire", "getExpire",
               "keys", "pagination", "execute",
               "count", "countExpired", "cleanup", "flush", "close" }

\* C7: no single call of a caller runs between the BEGIN and the COMMIT or
\* ROLLBACK of a batch: whenever one completes, no batch is in flight.
C7_BatchIsolation ==
  [][ (last' # last /\ last'.op \in SingleOps) => (txn.op = "none" /\ txn'.op = "none") ]_vars

\* A multiSet of two entries has applied the first one only.
C7_Witness ==
  /\ txn.op = "multiSet"
  /\ Len(txn.batch) = 2
  /\ txn.i = 2
  /\ table # txn.snapshot
  /\ table # set(table, txn.batch[2].key, txn.batch[2].value, txn.batch[2].expiresAt).table

\* multiGet answers every requested key as a single get on the table before
\* the call would.
MultiGetMatchesGet ==
  (last.op = "multiGet" /\ ~last.threw)
    => /\ DOMAIN last.map = Range(last.batch)
       /\ \A k \in Range(last.batch) : last.map[k] = get(last.pre, k, last.at).ret
       /\ \A k \in Keys \ Range(last.batch) :
            /\ (k \in DOMAIN table) = (k \in DOMAIN last.pre)
            /\ k \in DOMAIN table => table[k] = last.pre[k]

\* C8: multiGet returns an entry for every requested key, equal to what get
\* returns (the stored value, or null when the key is missing or expired);
\* afterwards the row of every requested key that was expired is deleted and
\* the rows of the other keys are unchanged.
C8_MultiGet ==
  (last.op = "multiGet" /\ ~last.threw)
    => /\ MultiGetMatchesGet
       /\ \A k \in Range(last.batch) :
            /\ last.map[k] = IF k \notin DOMAIN last.pre \/ Expired(last.pre[k], last.at)
                             THEN Null ELSE decodeValue(last.pre[k].value)
            /\ (k \in DOMAIN last.pre /\ Expired(last.pre[k], last.at)) => k \notin DOMAIN table

\* exists answers by the presence of the row alone and changes nothing.
ExistsIsRawPresence ==
  last.op = "exists"
    => ~last.threw /\ table = last.pre /\ last.flag = (last.key \in DOMAIN last.pre)

\* A row leaves the table only by a get of its key, a delete of its key, a
\* rename, a cleanup, a close or a flush.
RowsLeaveOnlyBy ==
  [][ \A k \in Keys :
        (k \in DOMAIN table /\ k \notin DOMAIN table')
          => \/ last'.op \in {"get", "delete"} /\ last'.key = k
             \/ last'.op = "rename" /\ k \in {last'.key, last'.newKey}
             \/ last'.op \in {"cleanup", "close", "flush"} ]_vars

\* C9: for a row that is expired and not yet reclaimed, exists(k) returns true
\* although get(k) returns null.
C9_ExistsOfExpired ==
  (last.op = "exists" /\ last.key \in DOMAIN last.pre /\ Expired(last.pre[last.key], last.at))
    => /\ last.flag
       /\ last.key \in DOMAIN table
       /\ get(table, last.key, last.at).ret = Null

\* C10: cleanup deletes exactly the expired rows and leaves the others as
\* they were; afterwards countExpired() is 0 and count() has dropped by the
\* countExpired() of before; with no expired row it changes nothing.
C10_Cleanup ==
  last.op = "cleanup"
    => /\ ~last.threw
       /\ DOMAIN table = { k \in DOMAIN last.pre : ~Expired(last.pre[k], last.at) }
       /\ \A k \in DOMAIN table : table[k] = last.pre[k]
       /\ countExpired(table, <<"%">>, last.at).num = 0
       /\ count(table, <<"%">>).num =
            count(last.pre, <<"%">>).num - countExpired(last.pre, <<"%">>, last.at).num
       /\ countExpired(last.pre, <<"%">>, last.at).num = 0 => table = last.pre

\* A cleanup met a row expiring at this instant, a row with timestamp 0 and a
\* row with no expiration, and removed the first two only.
C10_Witness ==
  /\ last.op = "cleanup"
  /\ \E k1, k2, k3 \in DOMAIN last.pre :
       /\ last.pre[k1].expires_at = << last.at >>
       /\ last.pre[k2].expires_at = << 0 >>
       /\ last.pre[k3].expires_at = NoExpiry
       /\ DOMAIN table = {k3}


\* ------------------------------------------------------------------ listing properties
RECURSIVE Pages(_, _, _, _)
\* The pages p, p + 1, ..., last of a table, one after the other.
Pages(t, limit, pattern, p) ==
  IF (p - 1) * limit >= Len(keys(t, pattern).list) THEN <<>>
  ELSE pagination(t, limit, p, pattern).list \o Pages(t, limit, pattern, p + 1)

\* C11: for limit > 0 and page >= 1, pagination returns the elements of
\* keys(pattern) at positions (page-1)*limit+1 .. page*limit, fewer or none
\* when the list is shorter, in the order of keys(pattern); the pages one
\* after the other are keys(pattern).
C11_Pagination ==
  /\ (last.op = "pagination" /\ last.limit > 0 /\ last.page >= 1)
       => LET all == keys(last.pre, last.pattern).list
              lo == (last.page - 1) * last.limit + 1
              hi == IF last.page * last.limit < Len(all) THEN last.page * last.limit ELSE Len(all)
          IN  /\ ~last.threw
              /\ Len(last.list) = (IF hi >= lo THEN hi - lo + 1 ELSE 0)
              /\ \A i \in 1..Len(last.list) : last.list[i] = all[lo + i - 1]
  /\ \A limit \in 1..MaxLimit, pattern \in Patterns :
       Pages(table, limit, pattern, 1) = keys(table, pattern).list

\* The second page of two met three matching keys and holds the third one.
C11_Witness ==
  /\ last.op = "pagination"
  /\ last.limit = 2
  /\ last.page = 2
  /\ Len(keys(last.pre, last.pattern).list) = 3
  /\ last.list = << keys(last.pre, last.pattern).list[3] >>

\* C12: pagination with limit <= 0 or page <= 0 throws, returns no key and
\* leaves the table unchanged.
C12_PaginationValidates ==
  (last.op = "pagination" /\ (last.limit <= 0 \/ last.page <= 0))
    => last.threw /\ last.list = <<>> /\ table = last.pre


\* ------------------------------------------------------------------ expiry properties
\* C13: setExpire(k, t) changes the expires_at of k's row and nothing else;
\* with k absent it changes nothing and creates no row; after setExpire(k, t)
\* with t <= now on a present key, get(k) returns null.
C13_SetExpire ==
  last.op = "setExpire"
    => /\ ~last.threw
       /\ DOMAIN table = DOMAIN last.pre
       /\ \A k \in DOMAIN table \ {last.key} : table[k] = last.pre[k]
       /\ last.key \in DOMAIN last.pre
            => /\ table[last.key].value = last.pre[last.key].value
               /\ table[last.key].expires_at = last.expiresAt
               /\ last.expiresAt[1] <= last.at => get(table, last.key, last.at).ret = Null

\* C14: after set(k, v, t) or setExpire(k, t) on a present key, getExpire(k)
\* returns t while the row is there, for every t >= 0; getExpire(k) returns
\* null exactly when k is absent or has no expiration.
C14_GetExpireRoundTrip ==
  /\ (OnTracked("getExpire") /\ last.key \in DOMAIN last.pre)
       => last.when = tracked.expiresAt
  /\ (last.op = "setExpire" /\ last.key \in DOMAIN last.pre)
       => getExpire(table, last.key).when = last.expiresAt
  /\ last.op = "getExpire"
       => (last.when = NoExpiry) =
            (last.key \notin DOMAIN last.pre \/ last.pre[last.key].expires_at = NoExpiry)

\* C16: keys, pagination, count, countExpired, exists and getExpire leave the
\* table unchanged, so keys() lists and count() counts the expired rows too;
\* get(k) removes no row but that of k.
C16_ReadsLeaveTable ==
  /\ last.op \in {"keys", "pagination", "count", "countExpired", "exists", "getExpire"}
       => table = last.pre
  /\ last.op = "keys"
       => Range(last.list) = { k \in DOMAIN last.pre : Like(k, last.pattern) }
  /\ last.op = "count"
       => last.num = Cardinality({ k \in DOMAIN last.pre : Like(k, last.pattern) })
  /\ last.op = "get"
       => \A k \in Keys \ {last.key} :
            /\ (k \in DOMAIN table) = (k \in DOMAIN last.pre)
            /\ k \in DOMAIN table => table[k] = last.pre[k]

\* countExpired counted an expired row, which is still in the table.
C16_Witness ==
  /\ last.op = "countExpired"
  /\ last.num >= 1
  /\ \E k \in DOMAIN table : Expired(table[k], last.at) /\ Like(k, last.pattern)

\* C19: for every row of the table, get treats it as expired (returns null
\* and deletes it) exactly when cleanup at the same clock value deletes it
\* and countExpired counts it.
C19_LazyAgreesWithBulk ==
  \A k \in DOMAIN table :
    LET lazy == get(table, k, now)
        reclaimed == lazy.ret = Null /\ k \notin DOMAIN lazy.table
    IN  /\ reclaimed = (k \notin DOMAIN cleanup(table, now).table)
        /\ reclaimed = (countExpired(Restrict(table, {k}), <<"%">>, now).num = 1)


\* ------------------------------------------------------------------ close properties
\* C15: close runs cleanup, so that the table it leaves holds no expired row
\* and keeps every other row, and releases the connection; every call after
\* that, a second close included, throws and changes nothing.
C15_Close ==
  /\ (last.op = "close" /\ ~last.threw)
       => /\ ~open
          /\ DOMAIN table = { k \in DOMAIN last.pre : ~Expired(last.pre[k], last.at) }
          /\ \A k \in DOMAIN table : table[k] = last.pre[k]
  /\ (~open /\ last.op # "none" /\ ~(last.op = "close" /\ ~last.threw))
       => last.threw /\ table = last.pre
  /\ ~open => \A k \in DOMAIN table : table[k].expires_at = NoExpiry \/ table[k].expires_at[1] > 0

\* A set on the closed connection threw and left the rows that survived the
\* closing cleanup.
C15_Witness ==
  /\ ~open
  /\ last.op = "set"
  /\ last.threw
  /\ table # EmptyTable
  /\ table = last.pre


\* ------------------------------------------------------------------ batch properties
RECURSIVE SetAll(_, _, _)
\* The table after set on the entries i, i + 1, ... of a batch, one call
\* after the other.
SetAll(t, entries, i) ==
  IF i > Len(entries) THEN t
  ELSE SetAll(set(t, entries[i].key, entries[i].value, entries[i].expiresAt).table,
              entries, i + 1)

\* The position of the last entry of a batch for a key.
LastFor(entries, k) ==
  CHOOSE i \in DOMAIN entries :
    entries[i].key = k /\ \A j \in DOMAIN entries : entries[j].key = k => j <= i

\* C17: a multiSet that succeeds leaves the table that set on each entry in
\* input order leaves; a key that occurs more than once holds the value and
\* the expiration of its last entry, and the other rows are as before.
C17_MultiSetIsSequence ==
  (last.op = "multiSet" /\ ~last.threw)
    => /\ table = SetAll(last.pre, last.batch, 1)
       /\ \A k \in Keys :
            IF \E i \in DOMAIN last.batch : last.batch[i].key = k
            THEN /\ k \in DOMAIN table
                 /\ table[k] = [value |-> encodeValue(last.batch[LastFor(last.batch, k)].value),
                                expires_at |-> last.batch[LastFor(last.batch, k)].expiresAt]
            ELSE /\ (k \in DOMAIN table) = (k \in DOMAIN last.pre)
                 /\ k \in DOMAIN table => table[k] = last.pre[k]

\* A batch wrote one key twice, with two different entries.
C17_Witness ==
  /\ last.op = "multiSet"
  /\ ~last.threw
  /\ Len(last.batch) = 2
  /\ last.batch[1].key = last.batch[2].key
  /\ last.batch[1] # last.batch[2]
  /\ table[last.batch[2].key].expires_at = last.batch[2].expiresAt

\* C18: a multiGet throws exactly when a requested key holds bytes that get
\* cannot decode, and then the table equals the table before the call: the
\* rows that get deleted earlier in the batch are present again.
C18_MultiGetRollsBack ==
  last.op = "multiGet"
    => /\ last.threw = (\E k \in Range(last.batch) : get(last.pre, k, last.at).threw)
       /\ last.threw => (table = last.pre /\ last.map = EmptyTable)

\* A multiGet met an expired row first and undecodable bytes second.
C18_Witness ==
  /\ last.op = "multiGet"
  /\ last.threw
  /\ Len(last.batch) = 2
  /\ last.batch[1] \in DOMAIN last.pre
  /\ last.batch[1] \notin DOMAIN get(last.pre, last.batch[1], last.at).table
  /\ get(last.pre, last.batch[2], last.at).threw
  /\ last.batch[1] \in DOMAIN table

====
